---- MODULE Spec2Model ----
(***************************************************************************)
(* Streaming decoders of two script-step parameters, Button and            *)
(* DialogField (src/src/script_steps/parameters/button.rs and              *)
(* dialog_field.rs), and their renderers.                                  *)
(*                                                                         *)
(* One behaviour is one call of from_xml on a cursor that is just past the *)
(* subject element's opening tag, followed by calls of display on the      *)
(* returned record.  Every step of the walk is one iteration of the        *)
(* decoder's loop: it pulls one event from the cursor and runs the match   *)
(* arm of that event.  The events are chosen by the cursor, one at a time. *)
(*                                                                         *)
(* The variables below the line "history" are not program state: they      *)
(* record what the cursor has delivered (the true nesting of the input),   *)
(* so that the properties can speak about the input.                       *)
(***************************************************************************)
EXTENDS Integers, Sequences, FiniteSets, TLC

\* Number of events the input holds before its end-of-input.
MaxEvents == 5

VARIABLES
    dec,        \* which decoder runs: "button" or "field"
    etype,      \* the "type" attribute (role tag) of the subject's opening tag
    attr,       \* Button: get_attribute(e, "value") of the subject's opening tag
    pc,         \* "run" inside the loop, "done" after return, "shown" after display
    ev,         \* the event the last read_event_into returned
    depth,      \* let mut depth
    in_text,    \* Button: let mut in_text
    label,      \* Button.label / DialogField.label
    commit,     \* Button.commit
    target,     \* DialogField.target
    password,   \* DialogField.password
    res,        \* result of the last collaborator call of this step, or "none"
    role,       \* argument of the last display call
    out,        \* result of the last display call
    twin,       \* a second run of the same decoder over the same events, begun
                \* at an opening tag that differs in its "type" attribute only
    \* ---- history ----
    nread,      \* events pulled by this decoder
    eof,        \* the cursor has reached the end of the input
    stack,      \* names of the elements open inside the subject, innermost last
    closed,     \* the subject's matching close has been consumed
    wf,         \* the events consumed so far are a prefix of a well-formed input
    lastBool,   \* Button: Some(value attribute) of the last Boolean open it matched
    lastValued, \* Button: value of the last such Boolean that carried a value
    qualSeen,   \* DialogField: it matched a Boolean open, type "Password", value "True"
    firstInText, \* first non-empty CDATA delivered inside an open Text element
    lastTextTag, \* Button: the last Text tag it matched: "open", "close" or "none"
    lastOkTarget, \* DialogField: Some(display) of the last Target call that returned Ok
    lastOkLabel,  \* DialogField: Some(display) of the last Calculation call that returned Ok
    hadTarget   \* DialogField: target has held a display string

vars == <<dec, etype, twin, attr, pc, ev, depth, in_text, label, commit, target, password,
          res, role, out, nread, eof, stack, closed, wf, lastBool, lastValued,
          qualSeen, firstInText, lastTextTag, lastOkTarget, lastOkLabel, hadTarget>>

hist == <<nread, eof, stack, closed, wf, lastBool, lastValued, qualSeen,
          firstInText, lastTextTag, lastOkTarget, lastOkLabel, hadTarget>>

histDelegation == <<lastOkTarget, lastOkLabel, hadTarget>>

-----------------------------------------------------------------------------
\* Option<String>
None == <<>>
Some(s) == <<s>>
Unwrap(o) == o[1]

\* Element names the decoders distinguish, and one they do not.
Names == {"Text", "Boolean", "Parameter", "Other"}
\* Value attributes of a Boolean (or of the subject's opening tag).
BoolValues == {None, Some("True"), Some("False")}
\* Type attributes of a nested Boolean.
BoolTypes == {None, Some("Password"), Some("Commit")}
\* Type attributes of a nested Parameter.
ParamTypes == {None, Some("Target"), Some("Label"), Some("Commit")}
\* CDATA payloads.
Texts == {"", "OK", "No"}
\* The subject's "value" attribute.
AttrValues == {None, Some(""), Some("Save")}
\* What a collaborator's display() renders.
Displays == {None, Some(""), Some("$input1"), Some("x")}
\* Role tags handed to display.
RoleTags == {"Button1", "Button2", "Button3", "Field1", "Field2", "Field3", "Misc"}

Event(k, n, t, v, x) == [kind |-> k, name |-> n, type |-> t, value |-> v, text |-> x]
NoEvent == Event("none", "", None, None, "")
EofEvent == Event("Eof", "", None, None, "")
ErrEvent == Event("Err", "", None, None, "")
\* Event::Text, Event::Empty, Event::Comment, ...: the arm `_ => {}`
MiscEvent == Event("Misc", "", None, None, "")
StartEvents ==
    {Event("Start", n, None, None, "") : n \in {"Text", "Other"}}
    \cup {Event("Start", "Boolean", t, v, "") :
             t \in BoolTypes, v \in BoolValues}
    \cup {Event("Start", "Parameter", t, None, "") :
             t \in ParamTypes}
EndEvents == {Event("End", n, None, None, "") : n \in Names}
CDataEvents == {Event("CData", "", None, None, x) : x \in Texts}

\* No collaborator was called in this step.
NoCall == [who |-> "none", ok |-> FALSE, display |-> None, sub |-> "none"]

\* utils::attributes::get_attribute
GetAttribute(e, key) == IF key = "type" THEN e.type ELSE e.value
\* utils::xml_utils::cdata_to_string
CdataToString(e) == e.text

-----------------------------------------------------------------------------
\* The cursor: which events read_event_into can return now.  A finite input
\* of at most MaxEvents events is followed by end-of-input.
Pull(S) == IF eof \/ nread >= MaxEvents THEN {} ELSE S

\* An element-open that begins a sub-tree belonging to a collaborator.
Delegated(e) ==
    e.kind = "Start" /\ e.name = "Parameter" /\ e.type \in {Some("Target"), Some("Label")}

\* History of the input's nesting.  The open of a collaborator's sub-tree is
\* marked when the decoder itself walks into it.
StackName(e) == IF Delegated(e) THEN "Delegated" ELSE e.name
Closes(e, top) == e.name = (IF top = "Delegated" THEN "Parameter" ELSE top)

HistStart(e) ==
    /\ stack' = IF closed \/ ~wf THEN stack ELSE Append(stack, StackName(e))
    /\ UNCHANGED <<closed, wf, eof>>

HistEnd(e) ==
    /\ UNCHANGED eof
    /\ IF closed \/ ~wf
          THEN UNCHANGED <<stack, closed, wf>>
          ELSE IF stack = <<>>
                  THEN /\ closed' = TRUE
                       /\ wf' = (e.name = "Parameter")
                       /\ UNCHANGED stack
                  ELSE /\ wf' = Closes(e, stack[Len(stack)])
                       /\ stack' = IF wf' THEN SubSeq(stack, 1, Len(stack) - 1) ELSE <<>>
                       /\ UNCHANGED closed

\* A decode error, or the end of the input before the subject's close.
HistBroken ==
    /\ wf' = FALSE
    /\ stack' = <<>>

HistBoolean(e) ==
    IF e.name = "Boolean"
       THEN /\ lastBool' = IF dec = "button" THEN Some(e.value) ELSE lastBool
            /\ lastValued' = IF dec = "button" /\ e.value # None
                                 THEN e.value ELSE lastValued
            /\ qualSeen' = (qualSeen \/ (/\ dec = "field"
                                          /\ e.type = Some("Password")
                                          /\ e.value = Some("True")))
       ELSE UNCHANGED <<lastBool, lastValued, qualSeen>>

HistTextTag(e) ==
    lastTextTag' = IF e.name = "Text" /\ dec = "button"
                      THEN (IF e.kind = "Start" THEN "open" ELSE "close")
                      ELSE lastTextTag

HistDelegation(r) ==
    /\ lastOkTarget' = IF r.who = "Target" /\ r.ok THEN Some(r.display) ELSE lastOkTarget
    /\ lastOkLabel' = IF r.who = "Calculation" /\ r.ok THEN Some(r.display) ELSE lastOkLabel
    /\ hadTarget' = (hadTarget \/ (r.who = "Target" /\ r.ok /\ r.display # None))

InsideText == \E i \in 1..Len(stack) : stack[i] = "Text"

HistCData(e) ==
    firstInText' = IF firstInText = None /\ ~closed /\ InsideText /\ e.text # ""
                      THEN Some(e.text) ELSE firstInText

-----------------------------------------------------------------------------
\* The subject's opening tag, e: &BytesStart.
Subject(t, v) == Event("Start", "Parameter", Some(t), v, "")

\* The role tags of the two runs' opening tags.
SubjectRolePairs(d) ==
    IF d = "button" THEN {<<"Button1", "Button3">>}
                    ELSE {<<"Field1", "Field2">>}

\* Variant: the label is seeded from the wrong attribute of the opening tag.
ButtonSeedLabelFromType(e) == GetAttribute(e, "type")

\* let mut label = get_attribute(e, "value");
ButtonSeedLabel(e) == GetAttribute(e, "value")

\* DialogField::default(): _e is not read
FieldSeedLabel(e) == None

SeedLabel(d, e) == IF d = "button" THEN ButtonSeedLabel(e) ELSE FieldSeedLabel(e)

Init ==
    /\ dec \in {"button", "field"}
    /\ attr \in AttrValues
    /\ (dec = "field" => attr = None)
    /\ \E pair \in SubjectRolePairs(dec) :
        /\ etype = pair[1]
        /\ twin = [type |-> pair[2], pc |-> "run", depth |-> 1, in_text |-> FALSE,
                   label |-> SeedLabel(dec, Subject(pair[2], attr)),
                   commit |-> FALSE, target |-> None, password |-> FALSE]
    /\ pc = "run"
    /\ ev = NoEvent
    /\ depth = 1
    /\ in_text = FALSE
    /\ label = SeedLabel(dec, Subject(etype, attr))
    /\ commit = FALSE
    /\ target = None
    /\ password = FALSE
    /\ res = NoCall
    /\ role = ""
    /\ out = None
    /\ nread = 0
    /\ eof = FALSE
    /\ stack = <<>>
    /\ closed = FALSE
    /\ wf = TRUE
    /\ lastBool = None
    /\ lastValued = None
    /\ qualSeen = FALSE
    /\ firstInText = None
    /\ lastTextTag = "none"
    /\ lastOkTarget = None
    /\ lastOkLabel = None
    /\ hadTarget = FALSE

-----------------------------------------------------------------------------
\* The second run takes the same step on the same event while it is in its loop.
TwinStep(t) == twin' = IF twin.pc = "run" THEN t ELSE twin
TwinPcOnEnd == IF twin.depth - 1 = 0 THEN "done" ELSE "run"

\* Button::from_xml

ButtonRunning == dec = "button" /\ pc = "run"

\* Variant: Err(_) => break
ButtonErrBreaks ==
    /\ ButtonRunning
    /\ \E e \in Pull({ErrEvent}) :
        /\ ev' = e
        /\ nread' = nread + 1
        /\ HistBroken
    /\ pc' = "done"
    /\ TwinStep([twin EXCEPT !.pc = "done"])
    /\ UNCHANGED <<lastTextTag, histDelegation>>
    /\ UNCHANGED <<dec, etype, attr, depth, in_text, label, commit, target, password,
                   res, role, out, eof, closed, lastBool, lastValued,
                   qualSeen, firstInText>>

\* Err(_) => continue
ButtonErr ==
    /\ ButtonRunning
    /\ \E e \in Pull({ErrEvent}) :
        /\ ev' = e
        /\ nread' = nread + 1
        /\ HistBroken
    /\ UNCHANGED twin
    /\ UNCHANGED <<lastTextTag, histDelegation>>
    /\ UNCHANGED <<dec, etype, attr, pc, depth, in_text, label, commit, target, password,
                   res, role, out, eof, closed, lastBool, lastValued,
                   qualSeen, firstInText>>

\* Variant: Ok(Event::Eof) => continue
ButtonEofSpins ==
    /\ ButtonRunning
    /\ ev' = EofEvent
    /\ eof' = TRUE
    /\ IF closed THEN UNCHANGED <<wf, stack>> ELSE HistBroken
    /\ UNCHANGED <<lastTextTag, histDelegation>>
    /\ UNCHANGED <<dec, etype, twin, attr, pc, depth, in_text, label, commit, target,
                   password, res, role, out, nread, closed, lastBool, lastValued,
                   qualSeen, firstInText>>

\* Variant: a truncated input yields Button::default().
ButtonEofDropsRecord ==
    /\ ButtonRunning
    /\ ev' = EofEvent
    /\ pc' = "done"
    /\ eof' = TRUE
    /\ label' = None
    /\ commit' = FALSE
    /\ IF closed THEN UNCHANGED <<wf, stack>> ELSE HistBroken
    /\ TwinStep([twin EXCEPT !.pc = "done", !.label = None, !.commit = FALSE])
    /\ UNCHANGED <<lastTextTag, histDelegation>>
    /\ UNCHANGED <<dec, etype, attr, depth, in_text, target, password,
                   res, role, out, nread, closed, lastBool, lastValued,
                   qualSeen, firstInText>>

\* Ok(Event::Eof) => break
ButtonEof ==
    /\ ButtonRunning
    /\ ev' = EofEvent
    /\ pc' = "done"
    /\ eof' = TRUE
    /\ IF closed THEN UNCHANGED <<wf, stack>> ELSE HistBroken
    /\ TwinStep([twin EXCEPT !.pc = "done"])
    /\ UNCHANGED <<lastTextTag, histDelegation>>
    /\ UNCHANGED <<dec, etype, attr, depth, in_text, label, commit, target, password,
                   res, role, out, nread, closed, lastBool, lastValued,
                   qualSeen, firstInText>>

\* b"Text" => in_text = true
ButtonInTextOnStart(e, it) == IF e.name = "Text" THEN TRUE ELSE it

\* Variant: a Boolean without a value attribute resets commit.
ButtonCommitOnStartUnconditional(e, c) ==
    IF e.name = "Boolean" THEN GetAttribute(e, "value") = Some("True") ELSE c

\* b"Boolean" => if let Some(val) = get_attribute(&inner, "value") { commit = val == "True" }
ButtonCommitOnStart(e, c) ==
    IF e.name = "Boolean" /\ GetAttribute(e, "value") # None
       THEN Unwrap(GetAttribute(e, "value")) = "True"
       ELSE c

\* Ok(Event::Start(inner))
ButtonStart ==
    /\ ButtonRunning
    /\ \E e \in Pull(StartEvents) :
        /\ ev' = e
        /\ nread' = nread + 1
        /\ depth' = depth + 1
        /\ in_text' = ButtonInTextOnStart(e, in_text)
        /\ commit' = ButtonCommitOnStart(e, commit)
        /\ TwinStep([twin EXCEPT !.depth = @ + 1,
                                 !.in_text = ButtonInTextOnStart(e, @),
                                 !.commit = ButtonCommitOnStart(e, @)])
        /\ HistStart(e)
        /\ HistTextTag(e)
        /\ HistBoolean(e)
    /\ UNCHANGED histDelegation
    /\ UNCHANGED <<dec, etype, attr, pc, label, target, password, res, role, out,
                   firstInText>>

\* Variant: the check label.is_none() is missing.
ButtonLabelOnCDataOverwrites(e, it, l) ==
    IF it /\ CdataToString(e) # "" THEN Some(CdataToString(e)) ELSE l

\* if in_text && label.is_none() { let text = ..; if !text.is_empty() { label = Some(text) } }
ButtonLabelOnCData(e, it, l) ==
    IF it /\ l = None /\ CdataToString(e) # ""
       THEN Some(CdataToString(e))
       ELSE l

\* Ok(Event::CData(cdata))
ButtonCData ==
    /\ ButtonRunning
    /\ \E e \in Pull(CDataEvents) :
        /\ ev' = e
        /\ nread' = nread + 1
        /\ label' = ButtonLabelOnCData(e, in_text, label)
        /\ TwinStep([twin EXCEPT !.label = ButtonLabelOnCData(e, twin.in_text, @)])
        /\ HistCData(e)
    /\ UNCHANGED <<lastTextTag, histDelegation>>
    /\ UNCHANGED <<dec, etype, attr, pc, depth, in_text, commit, target, password, res,
                   role, out, eof, stack, closed, wf, lastBool, lastValued, qualSeen>>

\* Variant: the flag is never cleared.
ButtonInTextOnEndKept(e, it) == it

\* if end.name().as_ref() == b"Text" { in_text = false }
ButtonInTextOnEnd(e, it) == IF e.name = "Text" THEN FALSE ELSE it

\* Ok(Event::End(end))
ButtonEnd ==
    /\ ButtonRunning
    /\ \E e \in Pull(EndEvents) :
        /\ ev' = e
        /\ nread' = nread + 1
        /\ in_text' = ButtonInTextOnEnd(e, in_text)
        /\ depth' = depth - 1
        /\ pc' = IF depth' = 0 THEN "done" ELSE "run"
        /\ TwinStep([twin EXCEPT !.in_text = ButtonInTextOnEnd(e, @),
                                 !.depth = @ - 1,
                                 !.pc = TwinPcOnEnd])
        /\ HistTextTag(e)
        /\ HistEnd(e)
    /\ UNCHANGED histDelegation
    /\ UNCHANGED <<dec, etype, attr, label, commit, target, password, res, role, out,
                   lastBool, lastValued, qualSeen, firstInText>>

\* _ => {}
ButtonMisc ==
    /\ ButtonRunning
    /\ \E e \in Pull({MiscEvent}) :
        /\ ev' = e
        /\ nread' = nread + 1
    /\ UNCHANGED twin
    /\ UNCHANGED <<lastTextTag, histDelegation>>
    /\ UNCHANGED <<dec, etype, attr, pc, depth, in_text, label, commit, target, password,
                   res, role, out, eof, stack, closed, wf, lastBool, lastValued,
                   qualSeen, firstInText>>

-----------------------------------------------------------------------------
\* Target::from_xml / Calculation::from_xml followed by display(): the call
\* returns Err(ParseError), or Ok(v) with v.display() one of Displays.
\* What the sub-tree it consumed held is recorded in sub: "password" when it
\* held a Boolean open with type "Password" and value "True", else "plain".
SubTrees == {"plain", "password"}
CollabResults(who) ==
    {[who |-> who, ok |-> FALSE, display |-> None, sub |-> b] : b \in SubTrees}
    \cup {[who |-> who, ok |-> TRUE, display |-> d, sub |-> b] :
             d \in Displays, b \in SubTrees}

\* The collaborator consumes its own sub-tree, its closing tag included; on a
\* truncated input it consumes up to the end of the input.
CollabConsumes(truncated) ==
    /\ eof' = (eof \/ truncated)
    /\ IF truncated /\ ~closed THEN HistBroken ELSE UNCHANGED <<wf, stack>>
    /\ UNCHANGED closed

-----------------------------------------------------------------------------
\* DialogField::from_xml

FieldRunning == dec = "field" /\ pc = "run"

\* Err(_) => continue
FieldErr ==
    /\ FieldRunning
    /\ \E e \in Pull({ErrEvent}) :
        /\ ev' = e
        /\ nread' = nread + 1
        /\ res' = NoCall
        /\ HistBroken
    /\ UNCHANGED twin
    /\ UNCHANGED <<lastTextTag, histDelegation>>
    /\ UNCHANGED <<dec, etype, attr, pc, depth, in_text, label, commit, target, password,
                   role, out, eof, closed, lastBool, lastValued,
                   qualSeen, firstInText>>

\* Ok(Event::Eof) => break
FieldEof ==
    /\ FieldRunning
    /\ ev' = EofEvent
    /\ pc' = "done"
    /\ res' = NoCall
    /\ eof' = TRUE
    /\ IF closed THEN UNCHANGED <<wf, stack>> ELSE HistBroken
    /\ TwinStep([twin EXCEPT !.pc = "done"])
    /\ UNCHANGED <<lastTextTag, histDelegation>>
    /\ UNCHANGED <<dec, etype, attr, depth, in_text, label, commit, target, password,
                   role, out, nread, closed, lastBool, lastValued,
                   qualSeen, firstInText>>

\* Variant: the "Label" arm calls the Target collaborator.
FieldCollaboratorSameArm(e) ==
    IF e.name = "Parameter" /\ GetAttribute(e, "type") \in {Some("Target"), Some("Label")}
       THEN "Target"
       ELSE "none"

\* Variant: the "Label" arm is missing, its sub-tree is walked by this decoder.
FieldCollaboratorTargetOnly(e) ==
    IF e.name = "Parameter" /\ GetAttribute(e, "type") = Some("Target") THEN "Target"
    ELSE "none"

\* b"Parameter" => match get_attribute(&inner, "type"): which collaborator is called
FieldCollaborator(e) ==
    IF e.name = "Parameter" /\ GetAttribute(e, "type") = Some("Target") THEN "Target"
    ELSE IF e.name = "Parameter" /\ GetAttribute(e, "type") = Some("Label") THEN "Calculation"
    ELSE "none"

\* Variant: if let Some(d) = target.display() { item.target = Some(d) }
FieldTargetOnStartKeeps(r, t) ==
    IF r.who = "Target" /\ r.ok /\ r.display # None THEN r.display ELSE t

\* Variant: item.target = Target::from_xml(..).ok().and_then(|t| t.display())
FieldTargetOnStartClears(r, t) ==
    IF r.who = "Target" THEN (IF r.ok THEN r.display ELSE None) ELSE t

\* if let Ok(target) = Target::from_xml(reader, &inner) { item.target = target.display() }
FieldTargetOnStart(r, t) ==
    IF r.who = "Target" /\ r.ok THEN r.display ELSE t

\* if let Ok(calc) = Calculation::from_xml(reader, &inner) { item.label = calc.display() }
FieldLabelOnStart(r, l) ==
    IF r.who = "Calculation" /\ r.ok THEN r.display ELSE l

\* Variant: the correction after a delegation is made twice.
FieldDepthOnStartTwice(r, d) ==
    IF r.who \in {"Target", "Calculation"} THEN (d + 1) - 2 ELSE d + 1

\* Variant: the correction after a delegation is missing.
FieldDepthOnStartUncorrected(r, d) == d + 1

\* depth += 1, and depth -= 1 after either delegation
FieldDepthOnStart(r, d) ==
    IF r.who \in {"Target", "Calculation"} THEN (d + 1) - 1 ELSE d + 1

\* Variant: item.password = is_password && is_true
FieldPasswordOnStartAssigns(e, p) ==
    IF e.name = "Boolean"
       THEN GetAttribute(e, "type") = Some("Password") /\ GetAttribute(e, "value") = Some("True")
       ELSE p

\* b"Boolean" => if is_password && is_true { item.password = true }
FieldPasswordOnStart(e, p) ==
    IF /\ e.name = "Boolean"
       /\ GetAttribute(e, "type") = Some("Password")
       /\ GetAttribute(e, "value") = Some("True")
       THEN TRUE
       ELSE p

\* Ok(Event::Start(inner))
FieldStart ==
    /\ FieldRunning
    /\ \E e \in Pull(StartEvents) :
        /\ ev' = e
        /\ nread' = nread + 1
        /\ IF FieldCollaborator(e) = "none"
              THEN /\ res' = NoCall
                   /\ HistStart(e)
              ELSE \E r \in CollabResults(FieldCollaborator(e)), truncated \in BOOLEAN :
                     /\ res' = r
                     /\ CollabConsumes(truncated)
        /\ depth' = FieldDepthOnStart(res', depth)
        /\ target' = FieldTargetOnStart(res', target)
        /\ label' = FieldLabelOnStart(res', label)
        /\ password' = FieldPasswordOnStart(e, password)
        /\ TwinStep([twin EXCEPT !.depth = FieldDepthOnStart(res', @),
                                 !.target = FieldTargetOnStart(res', @),
                                 !.label = FieldLabelOnStart(res', @),
                                 !.password = FieldPasswordOnStart(e, @)])
        /\ HistDelegation(res')
        /\ HistBoolean(e)
    /\ UNCHANGED lastTextTag
    /\ UNCHANGED <<dec, etype, attr, pc, in_text, commit, role, out, firstInText>>

\* Ok(Event::End(_))
FieldEnd ==
    /\ FieldRunning
    /\ \E e \in Pull(EndEvents) :
        /\ ev' = e
        /\ nread' = nread + 1
        /\ res' = NoCall
        /\ depth' = depth - 1
        /\ pc' = IF depth' = 0 THEN "done" ELSE "run"
        /\ TwinStep([twin EXCEPT !.depth = @ - 1, !.pc = TwinPcOnEnd])
        /\ HistEnd(e)
    /\ UNCHANGED <<lastTextTag, histDelegation>>
    /\ UNCHANGED <<dec, etype, attr, in_text, label, commit, target, password, role, out,
                   lastBool, lastValued, qualSeen, firstInText>>

\* _ => {}  (Event::CData, Event::Text, Event::Empty, ...)
FieldMisc ==
    /\ FieldRunning
    /\ \E e \in Pull({MiscEvent} \cup CDataEvents) :
        /\ ev' = e
        /\ nread' = nread + 1
        /\ res' = NoCall
    /\ UNCHANGED twin
    /\ UNCHANGED <<lastTextTag, histDelegation>>
    /\ UNCHANGED <<dec, etype, attr, pc, depth, in_text, label, commit, target, password,
                   role, out, eof, stack, closed, wf, lastBool, lastValued,
                   qualSeen, firstInText>>

-----------------------------------------------------------------------------
\* Button::display

\* match button_type { "Button1" => "Default Button", ..., _ => button_type }
ButtonRoleName(button_type) ==
    CASE button_type = "Button1" -> "Default Button"
      [] button_type = "Button2" -> "Button 2"
      [] button_type = "Button3" -> "Button 3"
      [] OTHER -> button_type

\* Variant: the check label.is_empty() is missing.
ButtonDisplayOfEmpty(l, button_type) ==
    IF l = None THEN None
    ELSE Some(ButtonRoleName(button_type) \o ": " \o Unwrap(l))

\* let label = self.label.as_ref()?; if label.is_empty() { return None } ... format!
ButtonDisplayOf(l, button_type) ==
    IF l = None THEN None
    ELSE IF Unwrap(l) = "" THEN None
    ELSE Some(ButtonRoleName(button_type) \o ": " \o Unwrap(l))

ButtonDisplay ==
    /\ dec = "button"
    /\ pc \in {"done", "shown"}
    /\ \E t \in RoleTags :
        /\ role' = t
        /\ out' = ButtonDisplayOf(label, t)
    /\ pc' = "shown"
    /\ UNCHANGED twin
    /\ UNCHANGED <<dec, etype, attr, ev, depth, in_text, label, commit, target, password,
                   res, hist>>

\* DialogField::display

\* match field_type { "Field1" => "1", "Field2" => "2", "Field3" => "3", _ => "?" }
FieldNumber(field_type) ==
    CASE field_type = "Field1" -> "1"
      [] field_type = "Field2" -> "2"
      [] field_type = "Field3" -> "3"
      [] OTHER -> "?"

\* parts.join(sep)
RECURSIVE Join(_, _)
Join(parts, sep) ==
    IF Len(parts) = 0 THEN ""
    ELSE IF Len(parts) = 1 THEN parts[1]
    ELSE parts[1] \o sep \o Join(Tail(parts), sep)

\* Variant: the check !label.is_empty() is missing.
FieldLabelPartEmpty(l, number) ==
    IF l = None THEN <<>> ELSE <<"Label " \o number \o ": " \o Unwrap(l)>>

\* if let Some(label) = &self.label { if !label.is_empty() { parts.push(..) } }
FieldLabelPart(l, number) ==
    IF l = None THEN <<>>
    ELSE IF Unwrap(l) = "" THEN <<>>
    ELSE <<"Label " \o number \o ": " \o Unwrap(l)>>

\* if self.password { parts.push("Password") }
FieldPasswordPart(p) == IF p THEN <<"Password">> ELSE <<>>

\* let target = self.target.as_ref()?; ... Some(parts.join(" ; "))
FieldDisplayOf(tg, l, p, field_type) ==
    IF tg = None THEN None
    ELSE LET number == FieldNumber(field_type)
             parts == <<"Input " \o number \o ": " \o Unwrap(tg)>>
                      \o FieldLabelPart(l, number)
                      \o FieldPasswordPart(p)
         IN  Some(Join(parts, " ; "))

FieldDisplay ==
    /\ dec = "field"
    /\ pc \in {"done", "shown"}
    /\ \E t \in RoleTags :
        /\ role' = t
        /\ out' = FieldDisplayOf(target, label, password, t)
    /\ pc' = "shown"
    /\ UNCHANGED twin
    /\ UNCHANGED <<dec, etype, attr, ev, depth, in_text, label, commit, target, password,
                   res, hist>>

-----------------------------------------------------------------------------
Next ==
    \/ ButtonErr
    \/ ButtonEof
    \/ ButtonStart
    \/ ButtonCData
    \/ ButtonEnd
    \/ ButtonMisc
    \/ ButtonDisplay
    \/ FieldErr
    \/ FieldEof
    \/ FieldStart
    \/ FieldEnd
    \/ FieldMisc
    \/ FieldDisplay

\* One iteration of either decoder's loop.
Walk ==
    \/ ButtonErr \/ ButtonEof \/ ButtonStart \/ ButtonCData \/ ButtonEnd \/ ButtonMisc
    \/ FieldErr \/ FieldEof \/ FieldStart \/ FieldEnd \/ FieldMisc

Spec == Init /\ [][Next]_vars

\* The loop is sequential code and read_event_into always returns: a decoder in
\* its loop takes its next iteration.
FairSpec == Spec /\ WF_vars(Walk)

-----------------------------------------------------------------------------
\* Properties.

\* C1: depth balance.  On a well-formed input the decoder has returned exactly
\* when the subject's matching close has been consumed: it neither stops
\* inside the subject nor pulls an event after the close.
DepthBalance == wf => ((pc = "run") <=> ~closed)

\* A dialog field returned at its close after a delegation and nested elements.
DepthBalanceWitness ==
    /\ dec = "field" /\ pc = "done" /\ wf /\ closed
    /\ target # None /\ label # None
    /\ nread = 5

\* C2 as stated: the returned commit flag is true exactly when the last
\* Boolean observed carries value "True", false when it carries another value
\* or none.
ButtonCommitLastBoolean ==
    (dec = "button" /\ pc # "run" /\ lastBool # None)
        => (commit = (Unwrap(lastBool) = Some("True")))

\* C2 amended: commit is true exactly when the last Boolean observed that
\* carries a value attribute has the value "True"; Booleans without a value
\* attribute leave it as it is.
ButtonCommitLastValued ==
    dec = "button" => (commit = (lastValued = Some("True")))

\* A Boolean "True" followed by a Boolean without a value: commit stays true.
ButtonCommitLastValuedWitness ==
    /\ dec = "button" /\ pc = "done"
    /\ lastBool = Some(None) /\ lastValued = Some("True") /\ commit

\* C3: password starts false, becomes true only on a Boolean open with type
\* "Password" and value "True" matched by this decoder, never becomes false
\* again, and so is true iff such a Boolean was matched.
QualifyingBoolean(e) ==
    /\ e.kind = "Start" /\ e.name = "Boolean"
    /\ e.type = Some("Password") /\ e.value = Some("True")

PasswordMonotonic ==
    /\ (dec = "field" => ~password)
    /\ [](dec = "field" => (password <=> qualSeen))
    /\ [][password => password']_vars
    /\ [][(dec = "field" /\ ~password /\ password') => QualifyingBoolean(ev')]_vars

\* password is true after a later Boolean with type "Password", value "False".
PasswordMonotonicWitness ==
    /\ dec = "field" /\ password /\ pc = "run"
    /\ ev.name = "Boolean" /\ ev.type = Some("Password") /\ ev.value = Some("False")

\* C4: attribute priority.  If the opening tag carries a "value" attribute the
\* label is that value, whatever CDATA the nested Text elements hold.
ButtonAttributePriority ==
    (dec = "button" /\ attr # None) => label = attr

\* An empty "value" attribute survived a non-empty CDATA inside Text.
ButtonAttributePriorityWitness ==
    /\ dec = "button" /\ pc = "done" /\ attr = Some("")
    /\ firstInText # None /\ label = attr

\* C5 as stated: without a "value" attribute, the label is the first
\* non-empty CDATA encountered inside a Text element of the well-formed input.
ButtonTextFallback ==
    (dec = "button" /\ attr = None /\ wf /\ firstInText # None)
        => label = firstInText

\* C6: a Parameter open with type "Target" goes to the Target collaborator and
\* its display becomes target; one with type "Label" goes to the Calculation
\* collaborator and its display becomes label; any other Parameter open is
\* not delegated and changes neither.
FieldDelegation ==
    [][(dec = "field" /\ pc = "run" /\ ev'.kind = "Start" /\ ev'.name = "Parameter")
          => /\ (ev'.type = Some("Target"))
                  => /\ res'.who = "Target"
                     /\ (res'.ok => target' = res'.display)
                     /\ label' = label
             /\ (ev'.type = Some("Label"))
                  => /\ res'.who = "Calculation"
                     /\ (res'.ok => label' = res'.display)
                     /\ target' = target
             /\ (ev'.type \notin {Some("Target"), Some("Label")})
                  => /\ res'.who = "none"
                     /\ target' = target
                     /\ label' = label]_vars

\* Both delegations stored their displays and a Parameter of another type
\* followed.
FieldDelegationWitness ==
    /\ dec = "field" /\ pc = "run"
    /\ target = Some("$input1") /\ label = Some("x")
    /\ ev.name = "Parameter" /\ ev.type = Some("Commit")

\* C7: a ParseError of a collaborator is absorbed: the record is unchanged and
\* the walk goes on.
FieldFailureAbsorbed ==
    [][(dec = "field" /\ pc = "run" /\ res'.who # "none" /\ ~res'.ok)
          => /\ target' = target
             /\ label' = label
             /\ password' = password
             /\ depth' = depth
             /\ pc' = "run"]_vars

\* The Target collaborator failed after an earlier one had succeeded.
FieldFailureAbsorbedWitness ==
    /\ dec = "field" /\ pc = "run"
    /\ res.who = "Target" /\ ~res.ok
    /\ target = Some("$input1") /\ label = None

\* C8: end-of-input before the matching close ends the walk and returns the
\* record as populated so far.
EofImplicitClose ==
    [][(pc = "run" /\ ev'.kind = "Eof")
          => /\ pc' = "done"
             /\ label' = label /\ commit' = commit
             /\ target' = target /\ password' = password
             /\ nread' = nread]_vars

\* A button truncated inside a nested element keeps its label and commit.
EofImplicitCloseWitness ==
    /\ dec = "button" /\ pc = "done" /\ ev.kind = "Eof" /\ depth > 1
    /\ attr = None /\ label = Some("OK") /\ commit

\* C9: Button::display is none iff the label is absent or empty; otherwise it
\* is "{RoleName}: {label}"; commit plays no part.
ButtonRoleNameTable ==
    [t \in RoleTags |->
        IF t = "Button1" THEN "Default Button"
        ELSE IF t = "Button2" THEN "Button 2"
        ELSE IF t = "Button3" THEN "Button 3"
        ELSE t]

ButtonRender ==
    (dec = "button" /\ pc = "shown")
        => /\ (out = None) <=> (label = None \/ label = Some(""))
           /\ (out # None) => out = Some(ButtonRoleNameTable[role] \o ": " \o label[1])

\* An unknown role tag and a committed button.
ButtonRenderWitness ==
    /\ dec = "button" /\ pc = "shown" /\ role = "Misc" /\ commit
    /\ label = Some("OK") /\ out = Some("Misc: OK")

\* C10: DialogField::display is none iff target is absent; otherwise
\* "Input N: target", then "Label N: label" if label is present and non-empty,
\* then "Password" if password, joined by " ; ".
FieldNumberTable ==
    [t \in RoleTags |->
        IF t = "Field1" THEN "1"
        ELSE IF t = "Field2" THEN "2"
        ELSE IF t = "Field3" THEN "3"
        ELSE "?"]

FieldRender ==
    (dec = "field" /\ pc = "shown")
        => /\ (out = None) <=> (target = None)
           /\ (out # None) =>
                out = Some("Input " \o FieldNumberTable[role] \o ": " \o target[1]
                           \o (IF label # None /\ label # Some("")
                                  THEN " ; Label " \o FieldNumberTable[role] \o ": " \o label[1]
                                  ELSE "")
                           \o (IF password THEN " ; Password" ELSE ""))

\* An empty label is left out, the password clause follows the input clause.
FieldRenderWitness ==
    /\ dec = "field" /\ pc = "shown" /\ role = "Misc"
    /\ target = Some("$input1") /\ label = Some("") /\ password
    /\ out = Some("Input ?: $input1 ; Password")

\* C11: the role tag of the opening tag does not influence decoding.  The
\* second run starts at an opening tag that differs only in its "type"
\* attribute and sees the same events; both runs hold the same record and are
\* at the same place at every step.
SameRecord ==
    /\ twin.label = label /\ twin.commit = commit
    /\ twin.target = target /\ twin.password = password

RoleTagIgnored ==
    twin.type # etype
        => /\ SameRecord
           /\ twin.depth = depth /\ twin.in_text = in_text
           /\ (twin.pc = "run") <=> (pc = "run")

\* Two buttons with different role tags returned the same populated record.
RoleTagIgnoredWitness ==
    /\ dec = "button" /\ pc = "done" /\ twin.pc = "done"
    /\ etype = "Button1" /\ twin.type = "Button3"
    /\ attr = Some("Save") /\ label = Some("Save") /\ commit /\ SameRecord

\* C12: after a delegation of a Parameter with type "Target" or "Label",
\* whether it ends in success or ParseError, depth is what it was before that
\* Parameter's opening tag; any other element-open leaves depth one higher.
DepthCorrection ==
    [][(dec = "field" /\ pc = "run" /\ ev'.kind = "Start")
          => IF Delegated(ev')
                THEN res'.who # "none" /\ depth' = depth
                ELSE res'.who = "none" /\ depth' = depth + 1]_vars

\* A failed delegation inside a nested element left depth where it was.
DepthCorrectionWitness ==
    /\ dec = "field" /\ pc = "run" /\ wf
    /\ Delegated(ev) /\ res.who = "Calculation" /\ ~res.ok
    /\ depth = 2 /\ Len(stack) = 1

\* C13: on every finite input, with decode errors and truncation, from_xml
\* returns after at most one pull per event of the input and one for its end:
\* a decoder in its loop can always take its next iteration, and an iteration
\* either returns or consumes one more event of the input, of which there are
\* MaxEvents at most.
Termination ==
    /\ [](pc = "run" => ENABLED Walk)
    /\ [][pc = "run" => (pc' # "run" \/ (nread' = nread + 1 /\ nread' <= MaxEvents))]_vars

\* C13 as a liveness property of FairSpec: the decoder returns.
EventuallyReturns == <>(pc # "run")

\* A walk that saw a decode error and the end of the input has returned.
TerminationWitness ==
    /\ pc = "done" /\ ev.kind = "Eof" /\ ~wf /\ ~closed /\ nread = MaxEvents /\ depth > 1

\* C14: an event the cursor reports as a decode error changes neither depth,
\* the in-text flag nor the record, and the walk goes on.
ErrorSkipped ==
    [][(pc = "run" /\ ev'.kind = "Err")
          => /\ depth' = depth /\ in_text' = in_text
             /\ label' = label /\ commit' = commit
             /\ target' = target /\ password' = password
             /\ pc' = "run"]_vars

\* A decode error inside a Text element of a button that has its label.
ErrorSkippedWitness ==
    /\ dec = "button" /\ pc = "run" /\ ev.kind = "Err"
    /\ depth > 1 /\ in_text /\ label = Some("OK") /\ attr = None

\* C16: depth is at least 1 while the loop runs and never negative; it is 0
\* only after the element-close that ended the walk; on a well-formed input it
\* is 1 plus the number of elements this decoder opened and has not closed.
DepthRange ==
    /\ depth >= 0
    /\ (pc = "run" => depth >= 1)
    /\ (depth = 0 => (pc # "run" /\ ev.kind = "End"))
    /\ ((wf /\ ~closed) => depth = 1 + Len(stack))
    /\ ((wf /\ closed) => depth = 0)

\* A dialog field two elements deep after a delegation.
DepthRangeWitness ==
    /\ dec = "field" /\ pc = "run" /\ wf
    /\ target # None /\ depth = 3 /\ Len(stack) = 2

\* C15: single-writer hand-off.  The dialog-field decoder never pulls an
\* event from inside a sub-tree that belongs to a collaborator; the step that
\* delegates pulls the opening tag only, and what the sub-tree holds (a Boolean
\* with type "Password" and value "True" included) reaches the record through
\* the collaborator's display alone.
SingleWriter ==
    /\ [](dec = "field" => \A i \in 1..Len(stack) : stack[i] # "Delegated")
    /\ [][(dec = "field" /\ pc = "run" /\ Delegated(ev'))
             => /\ res'.who # "none"
                /\ nread' = nread + 1
                /\ depth' = depth /\ password' = password
                /\ (res'.who = "Target"
                      => label' = label /\ target' \in {target, res'.display})
                /\ (res'.who = "Calculation"
                      => target' = target /\ label' \in {label, res'.display})]_vars

\* A delegated sub-tree held a qualifying Password Boolean: password is false.
SingleWriterWitness ==
    /\ dec = "field" /\ pc = "run" /\ wf
    /\ Delegated(ev) /\ res.who = "Target" /\ res.ok /\ res.sub = "password"
    /\ target = res.display /\ target # None /\ ~password

\* C17: target (label) is the display of the last Target (Calculation) call
\* that returned Ok, an absent display included; a call that returned
\* ParseError overwrites nothing.
LastDelegationWins ==
    dec = "field"
        => /\ target = (IF lastOkTarget = None THEN None ELSE lastOkTarget[1])
           /\ label = (IF lastOkLabel = None THEN None ELSE lastOkLabel[1])

\* A later successful Target call with an absent display reset a stored target.
LastDelegationWinsWitness ==
    /\ dec = "field" /\ pc = "done"
    /\ hadTarget /\ lastOkTarget = Some(None) /\ target = None

\* C18: a CDATA block changes label only when label is absent, the block is
\* non-empty and the in-text flag is set; the flag is set by every Text open
\* and cleared by every Text close, so a block before any Text open or after
\* a Text close leaves label unchanged.
TextFlagFrame ==
    /\ [](dec = "button" => (in_text <=> lastTextTag = "open"))
    /\ [][(dec = "button" /\ pc = "run" /\ ev'.kind = "CData")
             => /\ (label' # label)
                    => (label = None /\ ev'.text # "" /\ in_text /\ label' = Some(ev'.text))
                /\ (lastTextTag # "open") => label' = label]_vars

\* A non-empty block after a nested Text close, inside the outer Text element.
TextFlagFrameWitness ==
    /\ dec = "button" /\ pc = "run" /\ wf /\ attr = None
    /\ InsideText /\ lastTextTag = "close"
    /\ ev.kind = "CData" /\ ev.text = "OK" /\ label = None

====
